---- MODULE Spec2Model ----
(***************************************************************************)
(* A model of djangae/contrib/gauth/models.py: the process-wide cache of   *)
(* permission choices, GaeUserManager.pre_create_google_user, the          *)
(* permission checks of PermissionsMixin and the validation of the         *)
(* username field of GaeAbstractBaseUser.                                  *)
(*                                                                         *)
(* Python strings whose content matters (codenames, e-mail addresses,      *)
(* user ids) are sequences of one-character strings.  Python's None is the *)
(* value None below where a field holds either None or a plain value, and  *)
(* a record with an isNone flag where it holds either None or a list.      *)
(***************************************************************************)
EXTENDS Integers, Sequences, FiniteSets, TLC

VARIABLES
    \* ---- module state of models.py and the settings / registry it reads
    PERMISSIONS_LIST,          \* the module global of line 28
    MANUAL_PERMISSIONS,        \* settings.MANUAL_PERMISSIONS (may be unset)
    AUTOGENERATED_PERMISSIONS, \* settings.AUTOGENERATED_PERMISSIONS (may be unset)
    registry,                  \* the registered models, in registration order
    \* ---- observations of get_permission_choices()
    calls,                     \* number of calls made so far
    scans,                     \* number of calls that scanned the registry
    firstResult,               \* what the first call returned
    lastResult,                \* what the latest call returned
    manualAtFirst,             \* settings.MANUAL_PERMISSIONS when the first call began
    registryAtFirst,           \* the registry when the first call began
    \* ---- the user table and the latest pre_create_google_user call
    users,
    lastCreate,
    \* ---- the authentication backends, a user and the latest permission call
    backends,
    user,
    lastOp,
    \* ---- the latest validation of a username value
    lastClean

permVars == <<PERMISSIONS_LIST, MANUAL_PERMISSIONS, AUTOGENERATED_PERMISSIONS, registry,
              calls, scans, firstResult, lastResult, manualAtFirst, registryAtFirst>>
createVars == <<users, lastCreate>>
authVars == <<backends, user, lastOp>>
cleanVars == <<lastClean>>
vars == <<permVars, createVars, authVars, cleanVars>>

\* Python's None, for a field that holds None or a string: no string is this
\* sequence, whose one element is not a character.
None == <<"None">>

(***************************************************************************)
(* Strings as sequences of characters, compared as Python compares them.   *)
(***************************************************************************)

\* The characters the codenames and names are made of, in code point order.
Alphabet == <<" ", "C", "_", "a", "b", "c", "d", "e", "f", "g", "h", "i", "j", "k", "l",
              "m", "n", "o", "p", "q", "r", "s", "t", "u", "v", "w", "x", "y", "z">>

Ord(c) == CHOOSE i \in 1..Len(Alphabet) : Alphabet[i] = c

RECURSIVE StrLess(_, _)
\* s < t for Python strings: lexicographic by code point, a proper prefix is smaller.
StrLess(s, t) ==
    IF t = <<>> THEN FALSE
    ELSE IF s = <<>> THEN TRUE
    ELSE IF Head(s) # Head(t) THEN Ord(Head(s)) < Ord(Head(t))
    ELSE StrLess(Tail(s), Tail(t))

\* p < q for Python 2-tuples of strings.
PairLess(p, q) ==
    \/ StrLess(p[1], q[1])
    \/ p[1] = q[1] /\ StrLess(p[2], q[2])

RECURSIVE InsertSorted(_, _)
InsertSorted(p, s) ==
    IF s = <<>> THEN <<p>>
    ELSE IF PairLess(p, Head(s)) THEN <<p>> \o s
    ELSE <<Head(s)>> \o InsertSorted(p, Tail(s))

\* (a sorted() that leaves the list in the order it was built)
unsorted(s) == s

RECURSIVE sorted(_)
\* Python's sorted(list of tuples): a new list, ascending.
sorted(s) ==
    IF s = <<>> THEN <<>>
    ELSE InsertSorted(s[Len(s)], sorted(SubSeq(s, 1, Len(s) - 1)))

(***************************************************************************)
(* get_permission_choices                                                  *)
(***************************************************************************)

MaxCalls == 3

s_add == <<"a", "d", "d">>
s_change == <<"c", "h", "a", "n", "g", "e">>
s_delete == <<"d", "e", "l", "e", "t", "e">>
s_view == <<"v", "i", "e", "w">>
s_Can == <<"C", "a", "n">>
s_group == <<"g", "r", "o", "u", "p">>
s_logentry == <<"l", "o", "g", "e", "n", "t", "r", "y">>
s_log_entry == <<"l", "o", "g", " ", "e", "n", "t", "r", "y">>

\* The default of getattr(settings, "AUTOGENERATED_PERMISSIONS", ...).
DefaultAutoPermissions == <<s_add, s_change, s_delete>>

\* The values settings.AUTOGENERATED_PERMISSIONS is given: unset, empty, custom.
AutoPermissionSettings ==
    { [isSet |-> FALSE, val |-> <<>>],
      [isSet |-> TRUE, val |-> <<>>],
      [isSet |-> TRUE, val |-> <<s_view>>],
      [isSet |-> TRUE, val |-> <<s_change, s_add>>] }

\* Hand-written permission pairs a project may list in settings.MANUAL_PERMISSIONS.
ManualPool ==
    { <<s_view \o <<"_">> \o s_logentry, s_Can \o <<" ">> \o s_view \o <<" ">> \o s_log_entry>>,
      <<s_add \o <<"_">> \o s_group, s_Can \o <<" ">> \o s_add \o <<" ">> \o s_group>> }

ManualPermissionSettings ==
    { [isSet |-> FALSE, list |-> <<>>], [isSet |-> TRUE, list |-> <<>>] }
    \cup { [isSet |-> TRUE, list |-> <<p>>] : p \in ManualPool }
    \cup { [isSet |-> TRUE, list |-> <<p, q>>] : p \in ManualPool, q \in ManualPool }

\* The models that get registered: model._meta of each.  django.contrib.auth's Group
\* and this module's Group (line 62) share model_name and verbose_name.
ModelPool ==
    { [app_label |-> "auth", model_name |-> s_group, verbose_name_raw |-> s_group],
      [app_label |-> "djangae", model_name |-> s_group, verbose_name_raw |-> s_group],
      [app_label |-> "admin", model_name |-> s_logentry, verbose_name_raw |-> s_log_entry] }

\* The installed applications, in the order get_apps() returns them.
InstalledApps == <<"auth", "admin", "djangae">>

\* django.contrib.auth.get_permission_codename: '%s_%s' % (action, opts.model_name).
get_permission_codename(action, opts) == action \o <<"_">> \o opts.model_name

\* 'Can %s %s' % (action, opts.verbose_name_raw)
PermissionName(action, opts) == s_Can \o <<" ">> \o action \o <<" ">> \o opts.verbose_name_raw

\* get_models(app): the registered models of one application, in registration order.
get_models(app) == SelectSeq(registry, LAMBDA m : m.app_label = app)

RECURSIVE ForActions(_, _, _)
\* The innermost loop (lines 53-55): result after appending one pair per action.
ForActions(result, opts, actions) ==
    IF actions = <<>> THEN result
    ELSE ForActions(
            Append(result, <<get_permission_codename(Head(actions), opts),
                             PermissionName(Head(actions), opts)>>),
            opts, Tail(actions))

RECURSIVE ForModels(_, _, _)
ForModels(result, models, actions) ==
    IF models = <<>> THEN result
    ELSE ForModels(ForActions(result, Head(models), actions), Tail(models), actions)

RECURSIVE ForApps(_, _, _)
ForApps(result, apps, actions) ==
    IF apps = <<>> THEN result
    ELSE ForApps(ForModels(result, get_models(Head(apps)), actions), Tail(apps), actions)

\* Python truth of PERMISSIONS_LIST (line 42): None and the empty list are false.
Truthy(x) == ~x.isNone /\ x.list # <<>>

\* A model class is defined (its metaclass registers it).
RegisterModel(m) ==
    /\ \A i \in 1..Len(registry) : registry[i] # m
    /\ registry' = Append(registry, m)
    /\ UNCHANGED <<PERMISSIONS_LIST, MANUAL_PERMISSIONS, AUTOGENERATED_PERMISSIONS,
                   calls, scans, firstResult, lastResult, manualAtFirst, registryAtFirst>>
    /\ UNCHANGED <<createVars, authVars, cleanVars>>

\* get_permission_choices(), lines 34-58.  result is the settings' own list when
\* MANUAL_PERMISSIONS is set, so the appends of line 55 change the setting.
get_permission_choices ==
    /\ calls < MaxCalls
    /\ calls' = calls + 1
    /\ LET AUTO_PERMISSIONS == IF AUTOGENERATED_PERMISSIONS.isSet
                               THEN AUTOGENERATED_PERMISSIONS.val
                               ELSE DefaultAutoPermissions
           result == ForApps(MANUAL_PERMISSIONS.list, InstalledApps, AUTO_PERMISSIONS)
           returned == IF Truthy(PERMISSIONS_LIST) THEN PERMISSIONS_LIST.list
                       ELSE sorted(result)
       IN /\ IF Truthy(PERMISSIONS_LIST)
             THEN UNCHANGED <<PERMISSIONS_LIST, MANUAL_PERMISSIONS, scans>>
             ELSE /\ PERMISSIONS_LIST' = [isNone |-> FALSE, list |-> returned]
                  /\ MANUAL_PERMISSIONS' =
                        IF MANUAL_PERMISSIONS.isSet
                        THEN [isSet |-> TRUE, list |-> result]
                        ELSE MANUAL_PERMISSIONS
                  /\ scans' = scans + 1
          /\ lastResult' = returned
          /\ IF calls = 0
             THEN /\ firstResult' = returned
                  /\ manualAtFirst' = MANUAL_PERMISSIONS.list
                  /\ registryAtFirst' = registry
             ELSE UNCHANGED <<firstResult, manualAtFirst, registryAtFirst>>
    /\ UNCHANGED <<AUTOGENERATED_PERMISSIONS, registry>>
    /\ UNCHANGED <<createVars, authVars, cleanVars>>


(***************************************************************************)
(* GaeUserManager.pre_create_google_user                                   *)
(***************************************************************************)

MaxUsers == 1
MaxKwargs == 3

\* str.lower() on the characters used in the addresses.
LowerChar(c) == CASE c = "A" -> "a" [] c = "B" -> "b" [] OTHER -> c

lower(s) == [i \in 1..Len(s) |-> LowerChar(s[i])]

RECURSIVE lstrip(_)
lstrip(s) == IF s # <<>> /\ Head(s) = " " THEN lstrip(Tail(s)) ELSE s

RECURSIVE rstrip(_)
rstrip(s) == IF s # <<>> /\ s[Len(s)] = " " THEN rstrip(SubSeq(s, 1, Len(s) - 1)) ELSE s

strip(s) == rstrip(lstrip(s))

\* BaseUserManager.normalize_email (called at line 182): email or '', then, when the
\* stripped address holds an '@', the part after the last '@' in lower case.
normalize_email(email) ==
    LET e == IF email = None THEN <<>> ELSE email
        t == strip(e)
        ats == {i \in 1..Len(t) : t[i] = "@"}
    IN IF ats = {} THEN e
       ELSE LET at == CHOOSE i \in ats : \A j \in ats : j <= i
            IN SubSeq(t, 1, at - 1) \o <<"@">> \o lower(SubSeq(t, at + 1, Len(t)))

\* What make_password(None) may return (line 184): the unusable-password prefix '!',
\* alone or followed by random characters, depending on the framework's version.
UnusablePasswords == { <<"!">>, <<"!", "x", "Q">>, <<"!", "7", "k">> }

\* The e-mail addresses handed to the call.
EmailPool == { None, <<"A", "@", "B">>, <<" ", "a", "@", "A", "@", "B", " ">>, <<" ", "a", "B">> }

\* The keyword arguments a caller may add, each with the values it may take.
KwargValues ==
    [ email |-> { <<"b", "@", "A">> },
      username |-> { <<"1", "2", "3">> },
      password |-> { <<"p", "b", "k", "d", "f", "2">> },
      is_active |-> { FALSE, TRUE },
      first_name |-> { <<"A", "n", "n">> } ]

KwargKeys == {"email", "username", "password", "is_active", "first_name"}

\* Every **kwargs dict of at most MaxKwargs entries.
Kwargs ==
    LET full == [ email : KwargValues.email, username : KwargValues.username,
                  password : KwargValues.password, is_active : KwargValues.is_active,
                  first_name : KwargValues.first_name ]
    IN UNION { { [k \in ks |-> f[k]] : f \in full } :
                  ks \in {x \in SUBSET KwargKeys : Cardinality(x) <= MaxKwargs} }

\* The field defaults of the model (lines 193-215) that create() fills in.
FieldDefaults ==
    [ username |-> None, password |-> <<>>, email |-> <<>>, is_active |-> TRUE,
      first_name |-> <<>> ]

\* (the two updates of lines 179-186 in the other order: the caller's fields win)
pre_create_values_overridable(email, extra_fields, password) ==
    extra_fields
    @@ ("email" :> normalize_email(email) @@ "username" :> None @@ "password" :> password)
    @@ ("is_active" :> TRUE)

\* The dict built by lines 175-186: the default, then the caller's fields, then the
\* fields that cannot be overridden.  d @@ e keeps d's value where both have the key.
pre_create_values(email, extra_fields, password) ==
    ("email" :> normalize_email(email) @@ "username" :> None @@ "password" :> password)
    @@ extra_fields
    @@ ("is_active" :> TRUE)

\* self.create(**values): a row with the given fields, the others at their defaults.
create(values) == [k \in DOMAIN FieldDefaults |->
                     IF k \in DOMAIN values THEN values[k] ELSE FieldDefaults[k]]

\* A call manager.pre_create_google_user(*args, **kwargs).  Python binds the
\* parameters of line 173 first: email given twice, or not at all, is a TypeError
\* raised before the body runs; otherwise **extra_fields is kwargs without email.
pre_create_google_user(args, kwargs) ==
    /\ Cardinality(users) < MaxUsers
    /\ IF (Len(args) = 1) = ("email" \in DOMAIN kwargs)
       THEN /\ lastCreate' = [outcome |-> "TypeError", args |-> args, kwargs |-> kwargs,
                              before |-> users]
            /\ users' = users
       ELSE LET email == IF Len(args) = 1 THEN args[1] ELSE kwargs["email"]
                extra_fields == [k \in DOMAIN kwargs \ {"email"} |-> kwargs[k]]
            IN \E password \in UnusablePasswords :
                  LET row == create(pre_create_values(email, extra_fields, password))
                  IN /\ users' = users \cup {row}
                     /\ lastCreate' = [outcome |-> "created", args |-> args,
                                       kwargs |-> kwargs, before |-> users,
                                       email |-> email, extra_fields |-> extra_fields,
                                       row |-> row]
    /\ UNCHANGED <<permVars, authVars, cleanVars>>

(***************************************************************************)
(* PermissionsMixin: the permission checks                                 *)
(***************************************************************************)

MaxBackends == 2
MaxPerms == 2

\* "No object": the obj=None default of the methods.
NoObj == "None"

Perms == {"p1", "p2"}
Objs == {NoObj, "o1"}
AppLabels == {"app1", "app2"}

\* The configured authentication backends are drawn from these.  defines: the
\* methods the backend class has (what hasattr answers).
\*   plain:    authenticates only, defines none of the permission methods;
\*   model:    answers from the user's own permission list and groups, refuses
\*             inactive users and object-level questions;
\*   object:   grants object-level permissions, whatever the user's flags;
\*   permonly: grants p2 and module app2, has no get_group_permissions.
BackendPool ==
    { [name |-> "plain", defines |-> {}],
      [name |-> "model", defines |-> {"has_perm", "has_module_perms", "get_group_permissions"}],
      [name |-> "object", defines |-> {"has_perm", "get_group_permissions"}],
      [name |-> "permonly", defines |-> {"has_perm", "has_module_perms"}] }

\* backend.has_perm(user, perm, obj)
BackendHasPerm(b, u, perm, obj) ==
    CASE b.name = "model" -> u.is_active /\ obj = NoObj /\ perm \in u.user_permissions
      [] b.name = "object" -> obj = "o1"
      [] b.name = "permonly" -> perm = "p2" /\ obj = NoObj
      [] OTHER -> FALSE

\* backend.has_module_perms(user, app_label)
BackendHasModulePerms(b, u, app_label) ==
    CASE b.name = "model" -> u.is_active /\ app_label = "app1" /\ u.user_permissions # {}
      [] b.name = "permonly" -> app_label = "app2"
      [] OTHER -> FALSE

\* backend.get_group_permissions(user, obj=None)
BackendGroupPermissions(b, u, obj) ==
    CASE b.name = "model" -> IF obj = NoObj THEN {"g1", "g2"} ELSE {}
      [] b.name = "object" -> IF obj = NoObj THEN {"g2"} ELSE {"g3"}
      [] OTHER -> {}

\* The result of a method together with the backend calls it made:
\* <<index of the backend, method, the arguments after the user>>.
Answer(result, log) == [result |-> result, log |-> log]

RECURSIVE UserHasPermFrom(_, _, _, _, _)
UserHasPermFrom(i, u, perm, obj, log) ==
    IF i > Len(backends) THEN Answer(FALSE, log)
    ELSE IF "has_perm" \in backends[i].defines
         THEN LET log2 == Append(log, <<i, "has_perm", <<perm, obj>>>>)
              IN IF BackendHasPerm(backends[i], u, perm, obj) THEN Answer(TRUE, log2)
                 ELSE UserHasPermFrom(i + 1, u, perm, obj, log2)
         ELSE UserHasPermFrom(i + 1, u, perm, obj, log)

\* django.contrib.auth.models._user_has_perm (imported at line 11, called at 146):
\* ask each backend that has has_perm, in order, and stop at the first that grants.
_user_has_perm(u, perm, obj) == UserHasPermFrom(1, u, perm, obj, <<>>)

RECURSIVE UserHasModulePermsFrom(_, _, _, _)
UserHasModulePermsFrom(i, u, app_label, log) ==
    IF i > Len(backends) THEN Answer(FALSE, log)
    ELSE IF "has_module_perms" \in backends[i].defines
         THEN LET log2 == Append(log, <<i, "has_module_perms", <<app_label>>>>)
              IN IF BackendHasModulePerms(backends[i], u, app_label) THEN Answer(TRUE, log2)
                 ELSE UserHasModulePermsFrom(i + 1, u, app_label, log2)
         ELSE UserHasModulePermsFrom(i + 1, u, app_label, log)

\* django.contrib.auth.models._user_has_module_perms (imported at line 12).
_user_has_module_perms(u, app_label) == UserHasModulePermsFrom(1, u, app_label, <<>>)

\* (has_perm without the superuser shortcut of lines 142-143)
has_perm_backends_only(u, perm, obj) == _user_has_perm(u, perm, obj)

\* (has_perm whose shortcut forgets is_active)
has_perm_any_superuser(u, perm, obj) ==
    IF u.is_superuser THEN Answer(TRUE, <<>>) ELSE _user_has_perm(u, perm, obj)

\* PermissionsMixin.has_perm, lines 132-146.
has_perm(u, perm, obj) ==
    IF u.is_active /\ u.is_superuser THEN Answer(TRUE, <<>>)
    ELSE _user_has_perm(u, perm, obj)

RECURSIVE HasPermsFrom(_, _, _, _, _, _)
\* The loop of lines 154-157 from position i on; checked lists the perms has_perm
\* was called with so far.
HasPermsFrom(i, u, perm_list, obj, log, checked) ==
    IF i > Len(perm_list) THEN [result |-> TRUE, log |-> log, checked |-> checked]
    ELSE LET a == has_perm(u, perm_list[i], obj)
         IN IF ~a.result
            THEN [result |-> FALSE, log |-> log \o a.log,
                  checked |-> Append(checked, perm_list[i])]
            ELSE HasPermsFrom(i + 1, u, perm_list, obj, log \o a.log,
                              Append(checked, perm_list[i]))

\* (has_perms that is satisfied by any one permission of the list)
has_perms_any(u, perm_list, obj) ==
    LET all == HasPermsFrom(1, u, perm_list, obj, <<>>, <<>>)
    IN [result |-> \E i \in 1..Len(perm_list) : has_perm(u, perm_list[i], obj).result,
        log |-> all.log, checked |-> all.checked]

\* PermissionsMixin.has_perms, lines 148-157.
has_perms(u, perm_list, obj) == HasPermsFrom(1, u, perm_list, obj, <<>>, <<>>)

\* PermissionsMixin.has_module_perms, lines 159-168.
has_module_perms(u, app_label) ==
    IF u.is_active /\ u.is_superuser THEN Answer(TRUE, <<>>)
    ELSE _user_has_module_perms(u, app_label)

RECURSIVE GroupPermissionsFrom(_, _, _, _, _)
\* The loop of lines 120-126: permissions.update(...) per backend that has the method.
GroupPermissionsFrom(i, u, obj, permissions, log) ==
    IF i > Len(backends) THEN Answer(permissions, log)
    ELSE IF "get_group_permissions" \in backends[i].defines
         THEN GroupPermissionsFrom(
                 i + 1, u, obj,
                 permissions \cup BackendGroupPermissions(backends[i], u, obj),
                 Append(log, <<i, "get_group_permissions",
                               IF obj # NoObj THEN <<obj>> ELSE <<>> >>))
         ELSE GroupPermissionsFrom(i + 1, u, obj, permissions, log)

RECURSIVE GroupPermissionsOverwriteFrom(_, _, _, _, _)
GroupPermissionsOverwriteFrom(i, u, obj, permissions, log) ==
    IF i > Len(backends) THEN Answer(permissions, log)
    ELSE IF "get_group_permissions" \in backends[i].defines
         THEN GroupPermissionsOverwriteFrom(
                 i + 1, u, obj,
                 BackendGroupPermissions(backends[i], u, obj),
                 Append(log, <<i, "get_group_permissions",
                               IF obj # NoObj THEN <<obj>> ELSE <<>> >>))
         ELSE GroupPermissionsOverwriteFrom(i + 1, u, obj, permissions, log)

\* (get_group_permissions that keeps only the last backend's answer)
get_group_permissions_overwrite(u, obj) == GroupPermissionsOverwriteFrom(1, u, obj, {}, <<>>)

\* PermissionsMixin.get_group_permissions, lines 113-127.
get_group_permissions(u, obj) == GroupPermissionsFrom(1, u, obj, {}, <<>>)

\* The calls made on the user.
call_has_perm(perm, obj) ==
    /\ LET a == has_perm(user, perm, obj)
       IN lastOp' = [op |-> "has_perm", perm |-> perm, obj |-> obj,
                     result |-> a.result, log |-> a.log]
    /\ UNCHANGED <<backends, user, permVars, createVars, cleanVars>>

call_has_perms(perm_list, obj) ==
    /\ LET a == has_perms(user, perm_list, obj)
       IN lastOp' = [op |-> "has_perms", perm_list |-> perm_list, obj |-> obj,
                     result |-> a.result, log |-> a.log, checked |-> a.checked]
    /\ UNCHANGED <<backends, user, permVars, createVars, cleanVars>>

call_has_module_perms(app_label) ==
    /\ LET a == has_module_perms(user, app_label)
       IN lastOp' = [op |-> "has_module_perms", app_label |-> app_label,
                     result |-> a.result, log |-> a.log]
    /\ UNCHANGED <<backends, user, permVars, createVars, cleanVars>>

call_get_group_permissions(obj) ==
    /\ LET a == get_group_permissions(user, obj)
       IN lastOp' = [op |-> "get_group_permissions", obj |-> obj,
                     result |-> a.result, log |-> a.log]
    /\ UNCHANGED <<backends, user, permVars, createVars, cleanVars>>

\* Sequences over S of length lo..hi.
SeqsOf(S, lo, hi) == UNION { [1..n -> S] : n \in lo..hi }

(***************************************************************************)
(* GaeAbstractBaseUser.username: field validation                          *)
(***************************************************************************)

MaxLen == 23

\* The options of the field, lines 196-199 (blank is left at the default).
username_max_length == 21
username_null == TRUE
username_blank == FALSE
\* The repetition count of the pattern '^\d{21}$', line 198.
UserIdDigits == 21

DigitChars == <<"0", "1", "2", "3", "4", "5", "6", "7", "8", "9">>

\* \d on a Python 2 string.
IsDigit(c) == \E i \in 1..Len(DigitChars) : DigitChars[i] = c

\* (the pattern without its closing anchor, '^\d{21}')
regex_search_open_end(s) ==
    /\ Len(s) >= UserIdDigits
    /\ \A i \in 1..UserIdDigits : IsDigit(s[i])

\* re.compile('^\d{21}$').search(s): 21 digits from the start, then the end of the
\* string or one newline that ends the string ($ without re.MULTILINE).
regex_search(s) ==
    /\ Len(s) >= UserIdDigits
    /\ \A i \in 1..UserIdDigits : IsDigit(s[i])
    /\ \/ Len(s) = UserIdDigits
       \/ Len(s) = UserIdDigits + 1 /\ s[Len(s)] = "\n"

\* Field.empty_values, for the values a CharField is given here.
IsEmptyValue(value) == value = None \/ value = <<>>

\* Field.validate: the null and blank checks, the first failure raised.
validate(value) ==
    IF value = None /\ ~username_null THEN {"null"}
    ELSE IF ~username_blank /\ IsEmptyValue(value) THEN {"blank"}
    ELSE {}

\* Field.run_validators: nothing for an empty value, else the error codes of every
\* validator that refuses: the RegexValidator of line 198 and the
\* MaxLengthValidator that max_length=21 adds.
run_validators(value) ==
    IF IsEmptyValue(value) THEN {}
    ELSE (IF regex_search(value) THEN {} ELSE {"invalid"})
         \cup (IF Len(value) > username_max_length THEN {"max_length"} ELSE {})

\* Field.clean(value): validate, then run_validators; the codes of the
\* ValidationError raised, {} when the value is accepted.
clean(value) ==
    IF validate(value) # {} THEN validate(value) ELSE run_validators(value)

\* n digits.
Digits(n) == [i \in 1..n |-> DigitChars[(i % 10) + 1]]

\* The values validated: None, digit strings of every length up to MaxLen, and
\* those with one character replaced by a letter, a blank or a newline.
UsernameValues ==
    {None}
    \cup { Digits(n) : n \in 0..MaxLen }
    \cup UNION { { [Digits(n) EXCEPT ![p] = c] : p \in 1..n, c \in {"a", " ", "\n"} } :
                   n \in 1..MaxLen }

\* The username field cleans a value (model validation of a user).
clean_username(value) ==
    /\ lastClean' = [done |-> TRUE, value |-> value, errors |-> clean(value)]
    /\ UNCHANGED <<permVars, createVars, authVars>>

(***************************************************************************)
(* Specifications: one per part of the module, the other parts at rest     *)
(***************************************************************************)

\* The other parts of the model at rest.
CreateIdle == users = {} /\ lastCreate = [outcome |-> "none"]
PermIdle ==
    /\ PERMISSIONS_LIST = [isNone |-> TRUE, list |-> <<>>]
    /\ MANUAL_PERMISSIONS = [isSet |-> FALSE, list |-> <<>>]
    /\ AUTOGENERATED_PERMISSIONS = [isSet |-> FALSE, val |-> <<>>]
    /\ registry = <<>> /\ calls = 0 /\ scans = 0 /\ firstResult = <<>>
    /\ lastResult = <<>> /\ manualAtFirst = <<>> /\ registryAtFirst = <<>>
AuthIdle == /\ backends = <<>>
            /\ user = [is_active |-> TRUE, is_superuser |-> FALSE, user_permissions |-> {}]
            /\ lastOp = [op |-> "none"]
CleanIdle == lastClean = [done |-> FALSE]

PermInit ==
    /\ PERMISSIONS_LIST = [isNone |-> TRUE, list |-> <<>>]
    /\ MANUAL_PERMISSIONS \in ManualPermissionSettings
    /\ AUTOGENERATED_PERMISSIONS \in AutoPermissionSettings
    /\ registry = <<>>
    /\ calls = 0
    /\ scans = 0
    /\ firstResult = <<>>
    /\ lastResult = <<>>
    /\ manualAtFirst = <<>>
    /\ registryAtFirst = <<>>
    /\ CreateIdle /\ AuthIdle /\ CleanIdle

PermNext ==
    \/ \E m \in ModelPool : RegisterModel(m)
    \/ get_permission_choices

SpecPerm == PermInit /\ [][PermNext]_vars

CreateInit == PermIdle /\ CreateIdle /\ AuthIdle /\ CleanIdle

CreateNext ==
    \E args \in {<<>>} \cup {<<e>> : e \in EmailPool}, kwargs \in Kwargs :
        pre_create_google_user(args, kwargs)

SpecCreate == CreateInit /\ [][CreateNext]_vars

\* settings.AUTHENTICATION_BACKENDS names at least one backend (auth.get_backends()
\* refuses an empty list); the user row has any flags and permission list.
AuthInit ==
    /\ backends \in SeqsOf(BackendPool, 1, MaxBackends)
    /\ user \in [is_active : BOOLEAN, is_superuser : BOOLEAN,
                 user_permissions : {{}, {"p1"}}]
    /\ lastOp = [op |-> "none"]
    /\ PermIdle /\ CreateIdle /\ CleanIdle

AuthNext ==
    \/ \E perm \in Perms, obj \in Objs : call_has_perm(perm, obj)
    \/ \E perm_list \in SeqsOf(Perms, 0, MaxPerms), obj \in Objs : call_has_perms(perm_list, obj)
    \/ \E app_label \in AppLabels : call_has_module_perms(app_label)
    \/ \E obj \in Objs : call_get_group_permissions(obj)

SpecAuth == AuthInit /\ [][AuthNext]_vars

CleanInit == PermIdle /\ CreateIdle /\ AuthIdle /\ CleanIdle

CleanNext == \E value \in UsernameValues : clean_username(value)

SpecClean == CleanInit /\ [][CleanNext]_vars

(***************************************************************************)
(* Claims about get_permission_choices                                     *)
(***************************************************************************)

\* Number of positions of list s that hold p.
Count(p, s) == Cardinality({i \in 1..Len(s) : s[i] = p})

\* C1: across calls and model registrations the choices are computed once: only the
\* first call scans the registry and every later call returns what the first returned
\* (so a model registered after the first call is in no later result).
C1_ComputedOnce ==
    calls >= 1 => scans = 1 /\ lastResult = firstResult

\* C2: the first call returns an ascending list holding the entries of
\* settings.MANUAL_PERMISSIONS plus exactly one pair
\* (action_modelname, 'Can action verbose_name') per combination of a configured
\* action and a registered model: none is missing, none is there twice.
C2_FirstCallResult ==
    calls >= 1 =>
        LET auto == IF AUTOGENERATED_PERMISSIONS.isSet THEN AUTOGENERATED_PERMISSIONS.val
                    ELSE <<s_add, s_change, s_delete>>
            combos == {<<auto[k], i>> : k \in 1..Len(auto), i \in 1..Len(registryAtFirst)}
            pairOf(c) == <<c[1] \o <<"_">> \o registryAtFirst[c[2]].model_name,
                           <<"C", "a", "n", " ">> \o c[1] \o <<" ">>
                               \o registryAtFirst[c[2]].verbose_name_raw>>
            all == {firstResult[i] : i \in 1..Len(firstResult)}
                   \cup {manualAtFirst[i] : i \in 1..Len(manualAtFirst)}
                   \cup {pairOf(c) : c \in combos}
        IN /\ \A i \in 1..(Len(firstResult) - 1) : ~PairLess(firstResult[i + 1], firstResult[i])
           /\ Len(firstResult) = Len(manualAtFirst) + Cardinality(combos)
           /\ \A p \in all :
                 Count(p, firstResult)
                     = Count(p, manualAtFirst) + Cardinality({c \in combos : pairOf(c) = p})

\* C2's case: a first call made with every model registered, the default actions and
\* two manual entries returned eleven pairs.
C2_Witness ==
    /\ calls >= 1
    /\ Len(registryAtFirst) = 3
    /\ Len(manualAtFirst) = 2
    /\ ~AUTOGENERATED_PERMISSIONS.isSet
    /\ Len(firstResult) = 11

(***************************************************************************)
(* Claims about pre_create_google_user                                     *)
(***************************************************************************)

\* The row a successful call must have stored, judged from the call's arguments.
C3_RowAsClaimed ==
    LET kw == lastCreate.kwargs
        email == IF Len(lastCreate.args) = 1 THEN lastCreate.args[1] ELSE kw["email"]
        row == lastCreate.row
    IN /\ row \in users
       /\ row.username = None
       /\ row.password # None /\ row.password # <<>> /\ row.password[1] = "!"
       /\ row.email = normalize_email(email)
       /\ row.is_active = (IF "is_active" \in DOMAIN kw THEN kw["is_active"] ELSE TRUE)
       /\ \A k \in (DOMAIN kw) \ {"email", "username", "password", "is_active"} :
             row[k] = kw[k]

\* C3 as stated: a call with an e-mail address and any extra fields, 'username',
\* 'password' or 'email' among them, creates a row with username None, an unusable
\* password, the normalized address, is_active True unless given, the rest passed on.
C3_AnyExtraFieldsCreate ==
    (lastCreate.outcome # "none" /\ Len(lastCreate.args) = 1) =>
        (lastCreate.outcome = "created" /\ C3_RowAsClaimed)

\* C3 amended: every call that binds (email given exactly once) creates the row
\* described, also when username or password are among the extra fields; a call that
\* gives email both by position and by keyword, or not at all, raises TypeError and
\* leaves the table as it was.
C3_PreCreate ==
    /\ lastCreate.outcome = "created" =>
          /\ (Len(lastCreate.args) = 1) # ("email" \in DOMAIN lastCreate.kwargs)
          /\ C3_RowAsClaimed
    /\ lastCreate.outcome = "TypeError" =>
          /\ (Len(lastCreate.args) = 1) = ("email" \in DOMAIN lastCreate.kwargs)
          /\ users = lastCreate.before
    /\ lastCreate.outcome # "none" =>
          ((lastCreate.outcome = "created")
              = ((Len(lastCreate.args) = 1) # ("email" \in DOMAIN lastCreate.kwargs)))

\* C3's case: a call that tried to override username, password and is_active got a
\* row with username None, an unusable password and is_active False.
C3_Witness ==
    /\ lastCreate.outcome = "created"
    /\ DOMAIN lastCreate.kwargs = {"username", "password", "is_active"}
    /\ lastCreate.kwargs["is_active"] = FALSE
    /\ lastCreate.args = << <<" ", "a", "@", "A", "@", "B", " ">> >>
    /\ lastCreate.row.email = <<"a", "@", "A", "@", "b">>
    /\ lastCreate.row.username = None
    /\ lastCreate.row.is_active = FALSE

(***************************************************************************)
(* Claims about the permission checks                                      *)
(***************************************************************************)

ActiveSuperuser == user.is_active /\ user.is_superuser

\* Some configured backend that has has_perm grants perm on obj to the user.
SomeBackendGrants(perm, obj) ==
    \E i \in 1..Len(backends) :
        /\ "has_perm" \in backends[i].defines
        /\ BackendHasPerm(backends[i], user, perm, obj)

\* C4: for an active superuser has_perm, has_module_perms and has_perms return True
\* whatever is asked, and no backend is consulted.
C4_ActiveSuperuserHasAll ==
    (ActiveSuperuser /\ lastOp.op \in {"has_perm", "has_perms", "has_module_perms"}) =>
        (lastOp.result = TRUE /\ lastOp.log = <<>>)

\* C4's case: an active superuser with no permissions of their own was granted a
\* list of permissions that every backend would refuse.
C4_Witness ==
    /\ ActiveSuperuser
    /\ user.user_permissions = {}
    /\ lastOp.op = "has_perms"
    /\ Len(lastOp.perm_list) = 2
    /\ \A i \in 1..2 : ~SomeBackendGrants(lastOp.perm_list[i], lastOp.obj)
    /\ lastOp.result = TRUE

\* C5: for a user who is not an active superuser has_perm returns True exactly when
\* at least one configured backend grants the permission.
C5_HasPermIsBackendChain ==
    (~ActiveSuperuser /\ lastOp.op = "has_perm") =>
        (lastOp.result = SomeBackendGrants(lastOp.perm, lastOp.obj))

\* C5's case: an inactive superuser was refused a permission no backend grants, with
\* a backend that was asked.
C5_Witness ==
    /\ user.is_superuser /\ ~user.is_active
    /\ lastOp.op = "has_perm"
    /\ lastOp.result = FALSE
    /\ lastOp.log # <<>>

\* C6: has_perms returns True exactly when has_perm is True for each perm of the list
\* (so True for the empty list), and has_perm is called for the perms up to the first
\* refused one and for none after it.
C6_HasPermsIsConjunction ==
    lastOp.op = "has_perms" =>
        LET l == lastOp.perm_list
            ok(i) == IF ActiveSuperuser THEN TRUE ELSE SomeBackendGrants(l[i], lastOp.obj)
            refused == {i \in 1..Len(l) : ~ok(i)}
            upto == IF refused = {} THEN Len(l)
                    ELSE CHOOSE i \in refused : \A j \in refused : i <= j
        IN /\ lastOp.result = (\A i \in 1..Len(l) : has_perm(user, l[i], lastOp.obj).result)
           /\ lastOp.result = (refused = {})
           /\ lastOp.checked = SubSeq(l, 1, upto)

\* C6's case: the first perm of a list was refused, the second would have been
\* granted and was not checked.
C6_Witness ==
    /\ lastOp.op = "has_perms"
    /\ Len(lastOp.perm_list) = 2
    /\ ~has_perm(user, lastOp.perm_list[1], lastOp.obj).result
    /\ has_perm(user, lastOp.perm_list[2], lastOp.obj).result
    /\ lastOp.result = FALSE
    /\ lastOp.checked = <<lastOp.perm_list[1]>>

\* C7: get_group_permissions returns the union of the answers of the backends that
\* have the method, asked once each in order, with obj passed on only when it is not
\* None; backends without the method are not asked.
C7_GroupPermissionsUnion ==
    lastOp.op = "get_group_permissions" =>
        LET having == {i \in 1..Len(backends) : "get_group_permissions" \in backends[i].defines}
        IN /\ lastOp.result
                = UNION {BackendGroupPermissions(backends[i], user, lastOp.obj) : i \in having}
           /\ {lastOp.log[k][1] : k \in 1..Len(lastOp.log)} = having
           /\ Len(lastOp.log) = Cardinality(having)
           /\ \A k \in 1..Len(lastOp.log) :
                 /\ lastOp.log[k][2] = "get_group_permissions"
                 /\ lastOp.log[k][3] = (IF lastOp.obj = NoObj THEN <<>> ELSE <<lastOp.obj>>)
                 /\ \A j \in 1..(k - 1) : lastOp.log[j][1] < lastOp.log[k][1]
           /\ (having = {} => lastOp.result = {})

\* C7's case: two backends answered, both named g2, and the result holds it once
\* beside g1.
C7_Witness ==
    /\ lastOp.op = "get_group_permissions"
    /\ lastOp.obj = NoObj
    /\ Len(lastOp.log) = 2
    /\ backends[1] # backends[2]
    /\ \A i \in 1..2 : "g2" \in BackendGroupPermissions(backends[i], user, NoObj)
    /\ lastOp.result = {"g1", "g2"}

(***************************************************************************)
(* Claims about the username field                                         *)
(***************************************************************************)

\* The value is exactly 21 decimal digits.
IsUserId(v) == v # None /\ Len(v) = 21 /\ \A i \in 1..Len(v) : IsDigit(v[i])

\* The value is 21 decimal digits followed by one newline.
IsUserIdThenNewline(v) ==
    v # None /\ Len(v) = 22 /\ v[22] = "\n" /\ \A i \in 1..21 : IsDigit(v[i])

====
